---- MODULE Spec2Model ----
\* Model of ForwardingRuleSyncer (app/kubemci/pkg/gcp/forwardingrule/
\* forwardingrulesyncer.go): the reconciliation of one GCP global forwarding
\* rule against its desired state, the provider store it talks to, and the
\* status codec whose output it stores in the rule's description.
EXTENDS Integers, Sequences, FiniteSets

VARIABLES
    store,   \* the provider's forwarding rules: a function rule name -> rule
    inv,     \* per caller: its invocation, running or ended (op "none" when
             \* idle): arguments, locals, position, the provider calls made
    hist     \* what is remembered of the invocations that returned, newest
             \* first (an observer's record, no state of the program)

vars == <<store, inv, hist>>

----------------------------------------------------------------------------
\* Domains of the inputs.

Procs == {1, 2}
LbNames == {"lb1"}
IPs == {"10.0.0.5", "10.0.0.6"}
Targets == {"proxy-A", "proxy-B"}
\* cluster identifiers, listed in lexicographic order
ClusterOrder == <<"clusterA", "clusterB">>
ClusterIds == {ClusterOrder[i] : i \in 1..Len(ClusterOrder)}
\* the longest cluster list a caller passes
MaxClusters == 2

RECURSIVE NoDupSeqs(_, _)
NoDupSeqs(S, n) ==
    IF n = 0 THEN {<<>>}
    ELSE LET shorter == NoDupSeqs(S, n - 1)
         IN shorter \cup
            {Append(s, x) : <<s, x>> \in
                {pr \in shorter \X S : \A i \in 1..Len(pr[1]) : pr[1][i] # pr[2]}}

\* the cluster lists a caller may pass, in any order
ClusterLists == NoDupSeqs(ClusterIds, MaxClusters)

----------------------------------------------------------------------------
\* Constants of the program.

httpDefaultPortRange == "80-80"
httpsDefaultPortRange == "443-443"

\* namer.HttpForwardingRuleName(): one fixed name per syncer
HttpForwardingRuleName == "mci1-fw-lb"

----------------------------------------------------------------------------
\* Errors are token sequences; NoError is Go's nil.

NoError == <<>>
ErrNotFound == <<"googleapi: Error 404">>
ErrConflict == <<"googleapi: Error 409">>
ErrOther == <<"googleapi: Error 500">>
ErrEncoding == <<"json: encoding error">>
ErrDecoding == <<"json: decoding error">>

\* utils.IsHTTPErrorCode(err, http.StatusNotFound)
IsHTTPNotFound(err) == err = ErrNotFound

\* mutant: not-found is an error like the others
IgnoreHTTPNotFound_Nothing(err) == err

\* mutant: every error is ignored
IgnoreHTTPNotFound_Everything(err) == NoError

\* utils.IgnoreHTTPNotFound(err)
IgnoreHTTPNotFound(err) == IF IsHTTPNotFound(err) THEN NoError ELSE err

ErrRejected == <<"Will not overwrite Forwarding Rule without --force">>
ErrDesired(err) ==
    <<"unexpected error in generating the description for forwarding rule:">> \o err
\* mutant: the error of the delete is returned as it is
ErrDeleting_Bare(name, err) == err

ErrDeleting(name, err) ==
    <<"error in deleting existing forwarding rule", name>> \o err
ErrLbNotExist(lbName) == <<"Load balancer", lbName, "does not exist">>
ErrFetching(err) ==
    <<"error in fetching forwarding rule:">> \o err
        \o <<"Cannot determine status without it.">>
ErrParsing(err) ==
    <<"error in parsing forwarding rule description">> \o err
        \o <<"Cannot determine status without it.">>

----------------------------------------------------------------------------
\* sort.Strings

Rank(c) == CHOOSE i \in 1..Len(ClusterOrder) : ClusterOrder[i] = c

StrLess(a, b) == Rank(a) < Rank(b)

RECURSIVE Insert(_, _)
Insert(s, x) ==
    IF s = <<>> THEN <<x>>
    ELSE IF StrLess(x, Head(s)) THEN <<x>> \o s
    ELSE <<Head(s)>> \o Insert(Tail(s), x)

RECURSIVE SortStrings(_)
SortStrings(s) ==
    IF s = <<>> THEN <<>> ELSE Insert(SortStrings(Tail(s)), Head(s))

IsSorted(s) == \A i \in 1..(Len(s) - 1) : ~StrLess(s[i + 1], s[i])

ToSet(s) == {s[i] : i \in 1..Len(s)}

----------------------------------------------------------------------------
\* status.LoadBalancerStatus and its codec (JSON text, modelled as tokens).

NoStatus ==
    [Description |-> <<>>, LoadBalancerName |-> "", Clusters |-> <<>>, IPAddress |-> ""]

IndexOf(s, tok) ==
    IF \E i \in 1..Len(s) : s[i] = tok
    THEN CHOOSE i \in 1..Len(s) : s[i] = tok /\ \A j \in 1..(i - 1) : s[j] # tok
    ELSE 0

\* status.ToString: the text of the record
ToString(st) ==
    <<"{", "Description:">> \o st.Description
        \o <<"LoadBalancerName:", st.LoadBalancerName, "Clusters:", "[">>
        \o st.Clusters
        \o <<"]", "IPAddress:", st.IPAddress, "}">>

\* status.FromString: [status, err]
FromString(str) ==
    LET iLb == IndexOf(str, "LoadBalancerName:")
        iCl == IndexOf(str, "Clusters:")
        iEnd == IndexOf(str, "]")
        n == Len(str)
        wellFormed ==
            /\ n >= 10
            /\ str[1] = "{"
            /\ str[2] = "Description:"
            /\ iLb >= 3
            /\ iCl = iLb + 2
            /\ str[iCl + 1] = "["
            /\ iEnd > iCl + 1
            /\ n = iEnd + 3
            /\ str[iEnd + 1] = "IPAddress:"
            /\ str[n] = "}"
    IN IF wellFormed
       THEN [status |-> [Description |-> SubSeq(str, 3, iLb - 1),
                         LoadBalancerName |-> str[iLb + 1],
                         Clusters |-> SubSeq(str, iCl + 2, iEnd - 1),
                         IPAddress |-> str[iEnd + 2]],
             err |-> NoError]
       ELSE [status |-> NoStatus, err |-> ErrDecoding]

----------------------------------------------------------------------------
\* compute.ForwardingRule

ZeroRule ==
    [Name |-> "", Description |-> <<>>, IPAddress |-> "", Target |-> "",
     PortRange |-> "", IPProtocol |-> "", LoadBalancingScheme |-> "",
     CreationTimestamp |-> "", Id |-> 0, Kind |-> "", SelfLink |-> "",
     ServerResponse |-> 0]

\* mutant: the self-link is not cleared
ClearProviderAssigned_KeepSelfLink(fr) ==
    [fr EXCEPT !.CreationTimestamp = "", !.Id = 0, !.Kind = "",
               !.ServerResponse = 0]

\* forwardingRuleMatches clears the provider-assigned fields of the live rule
ClearProviderAssigned(fr) ==
    [fr EXCEPT !.CreationTimestamp = "", !.Id = 0, !.Kind = "",
               !.SelfLink = "", !.ServerResponse = 0]

\* mutant: the clusters are stored in the caller's order
desiredForwardingRule_Unsorted(lbName, ipAddress, targetProxyLink, clusters, encOk) ==
    LET status ==
            [Description |->
                 <<"Http forwarding rule for kubernetes multicluster loadbalancer",
                   lbName>>,
             LoadBalancerName |-> lbName,
             Clusters |-> clusters,
             IPAddress |-> ipAddress]
    IN IF ~encOk
       THEN [fr |-> ZeroRule, err |-> ErrDesired(ErrEncoding)]
       ELSE [fr |-> [ZeroRule EXCEPT
                        !.Name = HttpForwardingRuleName,
                        !.Description = ToString(status),
                        !.IPAddress = ipAddress,
                        !.Target = targetProxyLink,
                        !.PortRange = httpDefaultPortRange,
                        !.IPProtocol = "TCP",
                        !.LoadBalancingScheme = "EXTERNAL"],
             err |-> NoError]

\* mutant: a failure of the codec is not noticed, the description stays empty
desiredForwardingRule_IgnoreError(lbName, ipAddress, targetProxyLink, clusters, encOk) ==
    LET status ==
            [Description |->
                 <<"Http forwarding rule for kubernetes multicluster loadbalancer",
                   lbName>>,
             LoadBalancerName |-> lbName,
             Clusters |-> SortStrings(clusters),
             IPAddress |-> ipAddress]
    IN [fr |-> [ZeroRule EXCEPT
                   !.Name = HttpForwardingRuleName,
                   !.Description = IF encOk THEN ToString(status) ELSE <<>>,
                   !.IPAddress = ipAddress,
                   !.Target = targetProxyLink,
                   !.PortRange = httpDefaultPortRange,
                   !.IPProtocol = "TCP",
                   !.LoadBalancingScheme = "EXTERNAL"],
        err |-> NoError]

\* mutant: only the fields updateForwardingRule looks at, and the target, are
\* compared
forwardingRuleMatches_FiveFields(desiredFR, existingFR) ==
    /\ existingFR.IPAddress = desiredFR.IPAddress
    /\ existingFR.PortRange = desiredFR.PortRange
    /\ existingFR.IPProtocol = desiredFR.IPProtocol
    /\ existingFR.Description = desiredFR.Description
    /\ existingFR.Target = desiredFR.Target

\* mutant: the provider-assigned fields are compared too
forwardingRuleMatches_NoClear(desiredFR, existingFR) ==
    existingFR = desiredFR

forwardingRuleMatches(desiredFR, existingFR) ==
    ClearProviderAssigned(existingFR) = desiredFR

\* desiredForwardingRule: [fr, err]; encOk is whether the codec encodes
desiredForwardingRule(lbName, ipAddress, targetProxyLink, clusters, encOk) ==
    LET status ==
            [Description |->
                 <<"Http forwarding rule for kubernetes multicluster loadbalancer",
                   lbName>>,
             LoadBalancerName |-> lbName,
             Clusters |-> SortStrings(clusters),
             IPAddress |-> ipAddress]
    IN IF ~encOk
       THEN [fr |-> ZeroRule, err |-> ErrDesired(ErrEncoding)]
       ELSE [fr |-> [ZeroRule EXCEPT
                        !.Name = HttpForwardingRuleName,
                        !.Description = ToString(status),
                        !.IPAddress = ipAddress,
                        !.Target = targetProxyLink,
                        !.PortRange = httpDefaultPortRange,
                        !.IPProtocol = "TCP",
                        !.LoadBalancingScheme = "EXTERNAL"],
             err |-> NoError]

\* mutant: the IP address is left out of the comparison
NeedsRecreate_NoIP(existingFR, desiredFR) ==
    \/ existingFR.PortRange # desiredFR.PortRange
    \/ existingFR.IPProtocol # desiredFR.IPProtocol
    \/ existingFR.Description # desiredFR.Description

\* mutant: a differing target, too, makes the rule be deleted and created
NeedsRecreate_Target(existingFR, desiredFR) ==
    \/ existingFR.IPAddress # desiredFR.IPAddress
    \/ existingFR.PortRange # desiredFR.PortRange
    \/ existingFR.IPProtocol # desiredFR.IPProtocol
    \/ existingFR.Description # desiredFR.Description
    \/ existingFR.Target # desiredFR.Target

\* updateForwardingRule: whether the rule is deleted and created again
\* (otherwise its target proxy is set)
NeedsRecreate(existingFR, desiredFR) ==
    \/ existingFR.IPAddress # desiredFR.IPAddress
    \/ existingFR.PortRange # desiredFR.PortRange
    \/ existingFR.IPProtocol # desiredFR.IPProtocol
    \/ existingFR.Description # desiredFR.Description

----------------------------------------------------------------------------
\* The provider (ingresslb.LoadBalancers): each call is atomic and answers
\* from the store; a fault is a failure of the call that leaves the store as
\* it was.

EmptyStore == [n \in {} |-> ZeroRule]

\* the fields the provider assigns when it stores a rule
ProviderAssigned(fr) ==
    [fr EXCEPT !.CreationTimestamp = "2018-01-01T00:00:00", !.Id = 1,
               !.Kind = "compute#forwardingRule", !.SelfLink = fr.Name,
               !.ServerResponse = 200]

GetGlobalForwardingRule(st, name, fault) ==
    IF fault THEN [rule |-> ZeroRule, err |-> ErrOther]
    ELSE IF name \in DOMAIN st THEN [rule |-> st[name], err |-> NoError]
    ELSE [rule |-> ZeroRule, err |-> ErrNotFound]

CreateGlobalForwardingRule(st, fr, fault) ==
    IF fault THEN [store |-> st, err |-> ErrOther]
    ELSE IF fr.Name \in DOMAIN st THEN [store |-> st, err |-> ErrConflict]
    ELSE [store |-> [n \in DOMAIN st \cup {fr.Name} |->
                        IF n = fr.Name THEN ProviderAssigned(fr) ELSE st[n]],
          err |-> NoError]

DeleteGlobalForwardingRule(st, name, fault) ==
    IF fault THEN [store |-> st, err |-> ErrOther]
    ELSE IF name \notin DOMAIN st THEN [store |-> st, err |-> ErrNotFound]
    ELSE [store |-> [n \in DOMAIN st \ {name} |-> st[n]], err |-> NoError]

SetProxyForGlobalForwardingRule(st, name, target, fault) ==
    IF fault THEN [store |-> st, err |-> ErrOther]
    ELSE IF name \notin DOMAIN st THEN [store |-> st, err |-> ErrNotFound]
    ELSE [store |-> [st EXCEPT ![name].Target = target], err |-> NoError]

\* one provider call as the caller saw it
Call(op, name, rule, target, err) ==
    [op |-> op, name |-> name, rule |-> rule, target |-> target, err |-> err]

\* the calls that change the provider
Mutating == {"create", "delete", "setProxy"}

\* whether a provider call may fail for reasons outside the store (and the
\* codec fail to encode): not in the runs with a history nor in the race of
\* two EnsureHttpForwardingRule calls
Faults(m) == IF m \in {"call", "disturb", "retry"} THEN BOOLEAN ELSE {FALSE}

----------------------------------------------------------------------------
\* Invocations.

Idle ==
    [op |-> "none", pc |-> "idle", proc |-> 0,
     lbName |-> "", ipAddress |-> "", targetProxyLink |-> "", clusters |-> <<>>,
     forceUpdate |-> FALSE, encOk |-> TRUE,
     desiredFR |-> ZeroRule, existingFR |-> ZeroRule,
     calls |-> <<>>, err |-> NoError, status |-> NoStatus, matches |-> FALSE,
     before |-> EmptyStore, after |-> EmptyStore]

\* a caller may start: in "race" and "disturb" each caller calls once,
\* otherwise caller 1 calls again and again and nobody else does
MayStart(p, m) ==
    /\ inv[p].op = "none"
    /\ m \notin {"race", "disturb"} => p = 1

\* the invocation rec of caller p ends, st being the store it leaves
Finish(p, rec, st) ==
    /\ store' = st
    /\ inv' = [inv EXCEPT ![p] = [rec EXCEPT !.pc = "done", !.after = st]]
    /\ UNCHANGED hist

\* mutant: a differing rule is updated without forceUpdate
EnsureBranch_NoGate(desiredFR, g, forceUpdate) ==
    IF g.err = NoError
    THEN IF forwardingRuleMatches(desiredFR, g.rule) THEN "match"
         ELSE IF NeedsRecreate(ClearProviderAssigned(g.rule), desiredFR)
         THEN "delete" ELSE "setProxy"
    ELSE "create"

\* mutant: only "not found" leads to the create, another failure of the get
\* ends the call
EnsureBranch_OnlyNotFound(desiredFR, g, forceUpdate) ==
    IF g.err = NoError
    THEN IF forwardingRuleMatches(desiredFR, g.rule) THEN "match"
         ELSE IF forceUpdate
         THEN IF NeedsRecreate(ClearProviderAssigned(g.rule), desiredFR)
              THEN "delete" ELSE "setProxy"
         ELSE "rejected"
    ELSE IF IsHTTPNotFound(g.err) THEN "create"
    ELSE "rejected"

\* mutant: a rule that is not found is created with forceUpdate only
EnsureBranch_CreateNeedsForce(desiredFR, g, forceUpdate) ==
    IF g.err = NoError
    THEN IF forwardingRuleMatches(desiredFR, g.rule) THEN "match"
         ELSE IF forceUpdate
         THEN IF NeedsRecreate(ClearProviderAssigned(g.rule), desiredFR)
              THEN "delete" ELSE "setProxy"
         ELSE "rejected"
    ELSE IF forceUpdate THEN "create"
    ELSE "rejected"

\* EnsureHttpForwardingRule: what follows the answer [rule, err] of the get.
\* "match" and "rejected" return; "delete", "setProxy" and "create" are the
\* provider call made next
EnsureBranch(desiredFR, g, forceUpdate) ==
    IF g.err = NoError
    THEN IF forwardingRuleMatches(desiredFR, g.rule) THEN "match"
         ELSE IF forceUpdate
         THEN IF NeedsRecreate(ClearProviderAssigned(g.rule), desiredFR)
              THEN "delete" ELSE "setProxy"
         ELSE "rejected"
    ELSE "create"

\* in "retry" the caller makes the call it made before again, with either
\* forceUpdate
Retried(m, lbName, ipAddress, targetProxyLink, clusters) ==
    (m = "retry" /\ Len(hist) > 0) =>
        /\ hist[1].lbName = lbName
        /\ hist[1].ipAddress = ipAddress
        /\ hist[1].targetProxyLink = targetProxyLink
        /\ hist[1].clusters = clusters

\* EnsureHttpForwardingRule up to its first provider call and the decision
\* taken on the answer
EnsureHttpForwardingRule(p, m) ==
    /\ MayStart(p, m)
    /\ \E lbName \in LbNames, ipAddress \in IPs, targetProxyLink \in Targets,
          clusters \in ClusterLists, forceUpdate \in BOOLEAN,
          encFault \in Faults(m), fault \in Faults(m) :
        /\ Retried(m, lbName, ipAddress, targetProxyLink, clusters)
        /\ LET d == desiredForwardingRule(lbName, ipAddress, targetProxyLink,
                                          clusters, ~encFault)
               desiredFR == d.fr
               name == desiredFR.Name
               start == [Idle EXCEPT !.op = "Ensure", !.proc = p,
                                     !.lbName = lbName, !.ipAddress = ipAddress,
                                     !.targetProxyLink = targetProxyLink,
                                     !.clusters = clusters,
                                     !.forceUpdate = forceUpdate,
                                     !.encOk = ~encFault,
                                     !.desiredFR = desiredFR,
                                     !.before = store]
               g == GetGlobalForwardingRule(store, name, fault)
               fetched == [start EXCEPT !.existingFR = g.rule,
                                        !.calls = <<Call("get", name, ZeroRule, "", g.err)>>]
               branch == EnsureBranch(desiredFR, g, forceUpdate)
           IN IF d.err # NoError
              THEN /\ ~fault
                   /\ Finish(p, [start EXCEPT !.err = d.err], store)
              ELSE IF branch = "match" THEN Finish(p, fetched, store)
              ELSE IF branch = "rejected"
              THEN Finish(p, [fetched EXCEPT !.err = ErrRejected], store)
              ELSE /\ inv' = [inv EXCEPT ![p] = [fetched EXCEPT !.pc = branch]]
                   /\ UNCHANGED <<store, hist>>

\* updateForwardingRule: delete the existing rule before creating it again
updateForwardingRuleDelete(p, m) ==
    /\ inv[p].pc = "delete"
    /\ \E fault \in Faults(m) :
        LET name == inv[p].desiredFR.Name
            r == DeleteGlobalForwardingRule(store, name, fault)
            err == IgnoreHTTPNotFound(r.err)
            rec == [inv[p] EXCEPT !.calls =
                        Append(@, Call("delete", name, ZeroRule, "", r.err))]
        IN IF err # NoError
           THEN Finish(p, [rec EXCEPT !.err = ErrDeleting(name, err)], r.store)
           ELSE /\ store' = r.store
                /\ inv' = [inv EXCEPT ![p] = [rec EXCEPT !.pc = "create"]]
                /\ UNCHANGED hist

\* updateForwardingRule: set the target proxy of the existing rule
updateForwardingRuleSetProxy(p, m) ==
    /\ inv[p].pc = "setProxy"
    /\ \E fault \in Faults(m) :
        LET name == inv[p].desiredFR.Name
            target == inv[p].desiredFR.Target
            r == SetProxyForGlobalForwardingRule(store, name, target, fault)
            rec == [inv[p] EXCEPT !.calls =
                        Append(@, Call("setProxy", name, ZeroRule, target, r.err))]
        IN Finish(p, [rec EXCEPT !.err = r.err], r.store)

\* mutant: a create that failed is tried again
createForwardingRule_Retry(p, m) ==
    /\ inv[p].pc = "create"
    /\ \E fault \in Faults(m) :
        LET desiredFR == inv[p].desiredFR
            r == CreateGlobalForwardingRule(store, desiredFR, fault)
            rec == [inv[p] EXCEPT !.calls =
                        Append(@, Call("create", desiredFR.Name, desiredFR, "", r.err))]
        IN IF r.err # NoError /\ Len(inv[p].calls) < 3
           THEN /\ inv' = [inv EXCEPT ![p] = rec]
                /\ UNCHANGED <<store, hist>>
           ELSE Finish(p, [rec EXCEPT !.err = r.err], r.store)

createForwardingRule(p, m) ==
    /\ inv[p].pc = "create"
    /\ \E fault \in Faults(m) :
        LET desiredFR == inv[p].desiredFR
            r == CreateGlobalForwardingRule(store, desiredFR, fault)
            rec == [inv[p] EXCEPT !.calls =
                        Append(@, Call("create", desiredFR.Name, desiredFR, "", r.err))]
        IN Finish(p, [rec EXCEPT !.err = r.err], r.store)

\* mutant: a rule that is already gone counts as deleted
DeleteResult_Tolerant(err) == IgnoreHTTPNotFound(err)

\* DeleteForwardingRules: the error returned for the delete's error
DeleteResult(err) == err

DeleteForwardingRules(p, m) ==
    /\ MayStart(p, m)
    /\ \E fault \in Faults(m) :
        LET name == HttpForwardingRuleName
            r == DeleteGlobalForwardingRule(store, name, fault)
            rec == [Idle EXCEPT !.op = "Delete", !.proc = p, !.before = store,
                                !.calls = <<Call("delete", name, ZeroRule, "", r.err)>>,
                                !.err = DeleteResult(r.err)]
        IN Finish(p, rec, r.store)

\* mutant: every failure of the get is taken for "not found"
StatusResult_AnyErrorNotFound(lbName, g) ==
    IF g.err # NoError
    THEN [status |-> NoStatus, err |-> ErrLbNotExist(lbName)]
    ELSE LET s == FromString(g.rule.Description)
         IN IF s.err # NoError
            THEN [status |-> NoStatus, err |-> ErrParsing(s.err)]
            ELSE [status |-> s.status, err |-> NoError]

\* GetLoadBalancerStatus: [status, err] for the answer [rule, err] of the get
StatusResult(lbName, g) ==
    IF IsHTTPNotFound(g.err)
    THEN [status |-> NoStatus, err |-> ErrLbNotExist(lbName)]
    ELSE IF g.err # NoError
    THEN [status |-> NoStatus, err |-> ErrFetching(g.err)]
    ELSE LET s == FromString(g.rule.Description)
         IN IF s.err # NoError
            THEN [status |-> NoStatus, err |-> ErrParsing(s.err)]
            ELSE [status |-> s.status, err |-> NoError]

GetLoadBalancerStatus(p, m) ==
    /\ MayStart(p, m)
    /\ \E lbName \in LbNames, fault \in Faults(m) :
        LET name == HttpForwardingRuleName
            g == GetGlobalForwardingRule(store, name, fault)
            res == StatusResult(lbName, g)
            rec == [Idle EXCEPT !.op = "GetStatus", !.proc = p, !.before = store,
                                !.lbName = lbName, !.existingFR = g.rule,
                                !.calls = <<Call("get", name, ZeroRule, "", g.err)>>,
                                !.status = res.status, !.err = res.err]
        IN Finish(p, rec, store)

\* forwardingRuleMatches called on the desired rule of the arguments and the
\* live rule: the result, and the two rules as the call leaves them (the live
\* rule with its provider-assigned fields cleared)
CallForwardingRuleMatches(p) ==
    /\ MayStart(p, "call")
    /\ HttpForwardingRuleName \in DOMAIN store
    /\ \E lbName \in LbNames, ipAddress \in IPs, targetProxyLink \in Targets,
          clusters \in ClusterLists :
        LET desiredFR == desiredForwardingRule(lbName, ipAddress, targetProxyLink,
                                               clusters, TRUE).fr
            existingFR == store[HttpForwardingRuleName]
            rec == [Idle EXCEPT !.op = "Matches", !.proc = p,
                                !.lbName = lbName, !.ipAddress = ipAddress,
                                !.targetProxyLink = targetProxyLink,
                                !.clusters = clusters,
                                !.desiredFR = desiredFR,
                                !.existingFR = ClearProviderAssigned(existingFR),
                                !.matches = forwardingRuleMatches(desiredFR, existingFR),
                                !.before = store]
        IN Finish(p, rec, store)

\* The caller takes the result. What is remembered of the completed
\* invocations: "call": nothing, each invocation is taken on its own. "run":
\* the newest invocation, and the one before it when the newest is a status
\* query.
Remembered(rec, h, m) ==
    IF m = "call" THEN <<>>
    ELSE <<[rec EXCEPT !.before = EmptyStore, !.after = EmptyStore]>>
            \o (IF rec.op = "GetStatus" /\ Len(h) > 0 THEN <<h[1]>> ELSE <<>>)

Return(p, m) ==
    /\ inv[p].pc = "done"
    /\ inv' = [inv EXCEPT ![p] = Idle]
    /\ hist' = Remembered(inv[p], hist, m)
    /\ UNCHANGED store

----------------------------------------------------------------------------
\* Initial stores: no rule, or a rule left by an earlier run or by hand.

StatusOf(lbName, clusters, ipAddress) ==
    [Description |->
         <<"Http forwarding rule for kubernetes multicluster loadbalancer", lbName>>,
     LoadBalancerName |-> lbName, Clusters |-> clusters, IPAddress |-> ipAddress]

\* the rule an earlier run left for lb1, and rules that differ from it in one
\* field
BaseRule ==
    ProviderAssigned(
        [ZeroRule EXCEPT
            !.Name = HttpForwardingRuleName,
            !.Description =
                ToString(StatusOf("lb1", <<"clusterA", "clusterB">>, "10.0.0.5")),
            !.IPAddress = "10.0.0.5", !.Target = "proxy-A",
            !.PortRange = httpDefaultPortRange, !.IPProtocol = "TCP",
            !.LoadBalancingScheme = "EXTERNAL"])

InitRules ==
    {BaseRule,
     [BaseRule EXCEPT !.PortRange = httpsDefaultPortRange],
     [BaseRule EXCEPT !.LoadBalancingScheme = "INTERNAL_SELF_MANAGED"],
     [BaseRule EXCEPT !.Description = <<"not a status">>],
     [BaseRule EXCEPT !.IPAddress = "10.0.0.6"]}

InitStores ==
    {EmptyStore} \cup {[n \in {HttpForwardingRuleName} |-> r] : r \in InitRules}

Init ==
    /\ store \in InitStores
    /\ inv = [p \in Procs |-> Idle]
    /\ hist = <<>>

\* callers one after the other, each invocation on its own; provider calls
\* may fail
Next ==
    \E p \in Procs :
        \/ EnsureHttpForwardingRule(p, "call")
        \/ updateForwardingRuleDelete(p, "call")
        \/ updateForwardingRuleSetProxy(p, "call")
        \/ createForwardingRule(p, "call")
        \/ DeleteForwardingRules(p, "call")
        \/ GetLoadBalancerStatus(p, "call")
        \/ Return(p, "call")

Spec == Init /\ [][Next]_vars

\* callers one after the other on a provider that does not fail, with the
\* history of the run
NextRun ==
    \E p \in Procs :
        \/ EnsureHttpForwardingRule(p, "run")
        \/ updateForwardingRuleDelete(p, "run")
        \/ updateForwardingRuleSetProxy(p, "run")
        \/ createForwardingRule(p, "run")
        \/ DeleteForwardingRules(p, "run")
        \/ GetLoadBalancerStatus(p, "run")
        \/ Return(p, "run")

SpecRun == Init /\ [][NextRun]_vars

\* two concurrent EnsureHttpForwardingRule calls, one per caller
NextRace ==
    \E p \in Procs :
        \/ EnsureHttpForwardingRule(p, "race")
        \/ updateForwardingRuleDelete(p, "race")
        \/ updateForwardingRuleSetProxy(p, "race")
        \/ createForwardingRule(p, "race")

SpecRace == Init /\ [][NextRace]_vars

\* one EnsureHttpForwardingRule call of caller 1 with a concurrent
\* DeleteForwardingRules call of caller 2; provider calls may fail
NextDisturb ==
    \/ EnsureHttpForwardingRule(1, "disturb")
    \/ updateForwardingRuleDelete(1, "disturb")
    \/ updateForwardingRuleSetProxy(1, "disturb")
    \/ createForwardingRule(1, "disturb")
    \/ DeleteForwardingRules(2, "disturb")

SpecDisturb == Init /\ [][NextDisturb]_vars

\* one caller making the same EnsureHttpForwardingRule call again and again;
\* provider calls may fail
NextRetry ==
    \/ EnsureHttpForwardingRule(1, "retry")
    \/ updateForwardingRuleDelete(1, "retry")
    \/ updateForwardingRuleSetProxy(1, "retry")
    \/ createForwardingRule(1, "retry")
    \/ Return(1, "retry")

SpecRetry == Init /\ [][NextRetry]_vars

\* The live rules forwardingRuleMatches is tried on: every field the provider
\* does not assign as in a desired rule or not, every field it assigns set or
\* not.
ProviderValues ==
    [CreationTimestamp : {"", "2018-01-01T00:00:00"},
     Id : {0, 1},
     Kind : {"", "compute#forwardingRule"},
     SelfLink : {"", HttpForwardingRuleName},
     ServerResponse : {0, 200}]

\* the rule fr with the provider-assigned fields of pa
SetProvider(fr, pa) ==
    [fr EXCEPT !.CreationTimestamp = pa.CreationTimestamp, !.Id = pa.Id,
               !.Kind = pa.Kind, !.SelfLink = pa.SelfLink,
               !.ServerResponse = pa.ServerResponse]

LiveRules ==
    {SetProvider(u, pa) :
        u \in [Name : {HttpForwardingRuleName, "mci1-fw-other"},
               Description :
                   {ToString(StatusOf("lb1", <<"clusterA", "clusterB">>, ip)) : ip \in IPs}
                       \cup {<<"not a status">>},
               IPAddress : IPs,
               Target : Targets,
               PortRange : {httpDefaultPortRange, httpsDefaultPortRange},
               IPProtocol : {"TCP", "UDP"},
               LoadBalancingScheme : {"EXTERNAL", "INTERNAL_SELF_MANAGED"},
               CreationTimestamp : {""}, Id : {0}, Kind : {""}, SelfLink : {""},
               ServerResponse : {0}],
        pa \in ProviderValues}

InitMatch ==
    /\ store \in {[n \in {HttpForwardingRuleName} |-> r] : r \in LiveRules}
    /\ inv = [p \in Procs |-> Idle]
    /\ hist = <<>>

\* forwardingRuleMatches on its own, on every live rule
NextMatch ==
    \/ CallForwardingRuleMatches(1)
    \/ Return(1, "call")

SpecMatch == InitMatch /\ [][NextMatch]_vars

TypeOK ==
    /\ DOMAIN store \subseteq {HttpForwardingRuleName}
    /\ \A p \in Procs : inv[p].pc \in {"idle", "delete", "setProxy", "create", "done"}

----------------------------------------------------------------------------
\* Vocabulary of the properties.

\* the fields of a rule the provider does not assign
UserFields ==
    {"Name", "Description", "IPAddress", "Target", "PortRange", "IPProtocol",
     "LoadBalancingScheme"}

\* the fields of F on which the rules a and b differ
Differing(a, b, F) == {f \in F : a[f] # b[f]}

Ops(rec) == [i \in 1..Len(rec.calls) |-> rec.calls[i].op]

IsMutating(c) == c.op \in Mutating

MutatingCalls(rec) == SelectSeq(rec.calls, IsMutating)

\* a completed EnsureHttpForwardingRule whose desired rule was built
EnsureDone(rec) == rec.op = "Ensure" /\ rec.pc = "done" /\ rec.encOk

\* ... and whose get answered with the live rule
EnsureFound(rec) == EnsureDone(rec) /\ rec.calls[1].err = NoError

\* the store holds the same rule (all fields but the provider-assigned ones)
\* before and after
SameConfiguration(rec) ==
    /\ DOMAIN rec.after = DOMAIN rec.before
    /\ \A n \in DOMAIN rec.before :
           Differing(rec.before[n], rec.after[n], UserFields) = {}

SameArgs(a, b) ==
    /\ a.lbName = b.lbName
    /\ a.ipAddress = b.ipAddress
    /\ a.targetProxyLink = b.targetProxyLink
    /\ a.clusters = b.clusters
    /\ a.forceUpdate = b.forceUpdate

----------------------------------------------------------------------------
\* C2. MATCH is a no-op: when the rule fetched equals the desired rule on
\* every field the provider does not assign, EnsureHttpForwardingRule returns
\* nil after its one get, for either forceUpdate, with no create, delete or
\* setProxy, and the store unchanged.
C2_MatchIsNoOp ==
    \A p \in Procs :
        (EnsureFound(inv[p])
            /\ Differing(inv[p].existingFR, inv[p].desiredFR, UserFields) = {})
        => /\ inv[p].err = NoError
           /\ Ops(inv[p]) = <<"get">>
           /\ inv[p].after = inv[p].before

C2_Witness ==
    \E p \in Procs :
        /\ EnsureFound(inv[p])
        /\ Differing(inv[p].existingFR, inv[p].desiredFR, UserFields) = {}
        /\ inv[p].existingFR.Id # 0
        /\ inv[p].forceUpdate
        /\ inv[p].err = NoError

\* C3. Safety gate: a live rule that differs from the desired one, with
\* forceUpdate=false: no create, delete or setProxy, the store unchanged, and
\* the error is the refusal to overwrite without --force.
C3_SafetyGate ==
    \A p \in Procs :
        (EnsureFound(inv[p])
            /\ Differing(inv[p].existingFR, inv[p].desiredFR, UserFields) # {}
            /\ ~inv[p].forceUpdate)
        => /\ MutatingCalls(inv[p]) = <<>>
           /\ inv[p].after = inv[p].before
           /\ inv[p].err = ErrRejected

C3_Witness ==
    \E p \in Procs :
        /\ EnsureFound(inv[p])
        /\ Differing(inv[p].existingFR, inv[p].desiredFR, UserFields) = {"Target"}
        /\ ~inv[p].forceUpdate
        /\ inv[p].err = ErrRejected

\* C4. Minimal-mutation update: a live rule that differs from the desired one
\* only in Target, with forceUpdate=true: exactly one setProxy call, carrying
\* the desired target, and no delete and no create.
C4_MinimalUpdate ==
    \A p \in Procs :
        (EnsureFound(inv[p])
            /\ Differing(inv[p].existingFR, inv[p].desiredFR, UserFields) = {"Target"}
            /\ inv[p].forceUpdate)
        => /\ Ops(inv[p]) = <<"get", "setProxy">>
           /\ inv[p].calls[2].name = inv[p].existingFR.Name
           /\ inv[p].calls[2].target = inv[p].targetProxyLink

C4_Witness ==
    \E p \in Procs :
        /\ EnsureFound(inv[p])
        /\ Differing(inv[p].existingFR, inv[p].desiredFR, UserFields) = {"Target"}
        /\ inv[p].forceUpdate
        /\ inv[p].err = NoError
        /\ inv[p].after[HttpForwardingRuleName].Target = inv[p].targetProxyLink
        /\ inv[p].before[HttpForwardingRuleName].Target # inv[p].targetProxyLink

\* a completed GetLoadBalancerStatus
StatusDone(rec) == rec.op = "GetStatus" /\ rec.pc = "done"

\* the errors that say the load balancer does not exist
LoadBalancerNotFound == {ErrLbNotExist(lb) : lb \in LbNames}

\* C8. GetLoadBalancerStatus issues exactly one get and never changes the
\* store. Get not found: the load balancer does not exist. Rule found, its
\* description does not decode: the parsing error, which is not the
\* does-not-exist error. Any other failure of the get: an error that is not
\* the does-not-exist error. Otherwise: the status decoded from the live
\* description.
C8_StatusOutcomes ==
    \A p \in Procs :
        StatusDone(inv[p]) =>
            LET rec == inv[p]
                got == rec.calls[1]
                decoded == FromString(rec.existingFR.Description)
            IN /\ Ops(rec) = <<"get">>
               /\ got.name = HttpForwardingRuleName
               /\ rec.after = rec.before
               /\ got.err = ErrNotFound => rec.err = ErrLbNotExist(rec.lbName)
               /\ got.err \notin {NoError, ErrNotFound} =>
                      rec.err # NoError /\ rec.err \notin LoadBalancerNotFound
               /\ (got.err = NoError /\ decoded.err # NoError) =>
                      /\ rec.err = ErrParsing(decoded.err)
                      /\ rec.err \notin LoadBalancerNotFound
               /\ (got.err = NoError /\ decoded.err = NoError) =>
                      rec.err = NoError /\ rec.status = decoded.status

\* the found-but-undecodable case
C8_Witness ==
    \E p \in Procs :
        /\ StatusDone(inv[p])
        /\ inv[p].calls[1].err = NoError
        /\ HttpForwardingRuleName \in DOMAIN inv[p].before
        /\ FromString(inv[p].before[HttpForwardingRuleName].Description).err # NoError
        /\ inv[p].err = ErrParsing(ErrDecoding)

\* the get failing otherwise than with not-found
C8_WitnessFetchError ==
    \E p \in Procs :
        /\ StatusDone(inv[p])
        /\ inv[p].calls[1].err = ErrOther
        /\ inv[p].err = ErrFetching(ErrOther)

\* the status of a decodable rule
C8_WitnessDecoded ==
    \E p \in Procs :
        /\ StatusDone(inv[p])
        /\ inv[p].err = NoError
        /\ inv[p].status.Clusters = <<"clusterA", "clusterB">>
        /\ inv[p].status.LoadBalancerName = "lb1"

\* a completed DeleteForwardingRules
DeleteDone(rec) == rec.op = "Delete" /\ rec.pc = "done"

\* C9. DeleteForwardingRules issues exactly one delete, for the namer's rule
\* name, and returns the provider's error as it is, not-found included, the
\* store then being as before; on success the rule is gone.
C9_DeleteSurfacesErrors ==
    \A p \in Procs :
        DeleteDone(inv[p]) =>
            LET rec == inv[p]
            IN /\ Ops(rec) = <<"delete">>
               /\ rec.calls[1].name = HttpForwardingRuleName
               /\ rec.err = rec.calls[1].err
               /\ rec.err # NoError => rec.after = rec.before
               /\ rec.err = NoError =>
                      /\ HttpForwardingRuleName \in DOMAIN rec.before
                      /\ HttpForwardingRuleName \notin DOMAIN rec.after

\* deleting a rule that does not exist
C9_Witness ==
    \E p \in Procs :
        /\ DeleteDone(inv[p])
        /\ inv[p].before = EmptyStore
        /\ inv[p].calls[1].err = ErrNotFound
        /\ inv[p].err = ErrNotFound

----------------------------------------------------------------------------
\* Properties of runs on a provider whose calls do not fail (SpecRun).

\* C5. Destructive update: a live rule that differs from the desired one in
\* IPAddress, with forceUpdate=true: get, then exactly one delete by name,
\* then exactly one create with the whole desired rule, and no setProxy.
C5_DestructiveUpdate ==
    \A p \in Procs :
        (EnsureFound(inv[p])
            /\ "IPAddress" \in Differing(inv[p].existingFR, inv[p].desiredFR, UserFields)
            /\ inv[p].forceUpdate)
        => LET rec == inv[p]
           IN /\ Ops(rec) = <<"get", "delete", "create">>
              /\ rec.calls[2].name = rec.existingFR.Name
              /\ rec.calls[3].rule = rec.desiredFR
              /\ rec.calls[3].rule.IPAddress = rec.ipAddress
              /\ rec.calls[3].rule.Target = rec.targetProxyLink

\* the IP address being the only field that differs
C5_Witness ==
    \E p \in Procs :
        /\ EnsureFound(inv[p])
        /\ Differing(inv[p].existingFR, inv[p].desiredFR, UserFields) = {"IPAddress"}
        /\ inv[p].forceUpdate
        /\ Ops(inv[p]) = <<"get", "delete", "create">>
        /\ inv[p].err = NoError
        /\ inv[p].after[HttpForwardingRuleName].IPAddress = inv[p].ipAddress
        /\ inv[p].before[HttpForwardingRuleName].IPAddress # inv[p].ipAddress

\* The invocation completed before the one that has just ended, and the one
\* before that.
HasPrev == Len(hist) >= 1
Prev == hist[1]
HasPrev2 == Len(hist) >= 2
Prev2 == hist[2]

\* rec observed MATCH: one get and nothing else, nil returned
ObservedMatch(rec) ==
    /\ Ops(rec) = <<"get">>
    /\ rec.calls[1].err = NoError
    /\ rec.err = NoError

Count(s, x) == Cardinality({i \in 1..Len(s) : s[i] = x})

IsPermutation(s, t) ==
    /\ Len(s) = Len(t)
    /\ \A x \in ToSet(s) \cup ToSet(t) : Count(s, x) = Count(t, x)

\* C1, as claimed. Two EnsureHttpForwardingRule calls in sequence with the
\* same arguments make exactly one create, delete or setProxy call between
\* them, and the second observes MATCH and makes none.
C1_ExactlyOneMutation ==
    \A p \in Procs :
        (EnsureDone(inv[p]) /\ HasPrev /\ EnsureDone(Prev) /\ SameArgs(Prev, inv[p]))
        => /\ Len(MutatingCalls(Prev)) + Len(MutatingCalls(inv[p])) = 1
           /\ ObservedMatch(inv[p])

\* C1, amended. Two calls in sequence with the same arguments, no provider
\* call failing: when the first finds no rule (and creates it), or finds with
\* forceUpdate=true a rule that differs from the desired one in Target only
\* (and sets its proxy), there is exactly one create, delete or setProxy call
\* between the two; when the first deletes and creates the rule there are
\* two; in all three cases the second call observes MATCH and makes none.
\* When the first call observes MATCH or is refused without forceUpdate
\* there is none at all.
C1_Idempotent ==
    \A p \in Procs :
        (EnsureDone(inv[p]) /\ HasPrev /\ EnsureDone(Prev) /\ SameArgs(Prev, inv[p]))
        => LET n == Len(MutatingCalls(Prev)) + Len(MutatingCalls(inv[p]))
               diff == Differing(Prev.existingFR, Prev.desiredFR, UserFields)
           IN /\ Prev.calls[1].err = ErrNotFound =>
                    n = 1 /\ Ops(Prev) = <<"get", "create">> /\ ObservedMatch(inv[p])
              /\ (Prev.calls[1].err = NoError /\ Prev.forceUpdate /\ diff = {"Target"}) =>
                    n = 1 /\ Ops(Prev) = <<"get", "setProxy">> /\ ObservedMatch(inv[p])
              /\ Ops(Prev) = <<"get", "delete", "create">> =>
                    n = 2 /\ ObservedMatch(inv[p])
              /\ (ObservedMatch(Prev) \/ Prev.err = ErrRejected) =>
                    n = 0 /\ inv[p].err = Prev.err

\* the second of two identical calls on a store that was empty
C1_Witness ==
    \E p \in Procs :
        /\ EnsureDone(inv[p]) /\ HasPrev /\ EnsureDone(Prev) /\ SameArgs(Prev, inv[p])
        /\ Prev.calls[1].err = ErrNotFound
        /\ Ops(Prev) = <<"get", "create">>
        /\ ObservedMatch(inv[p])
        /\ inv[p].clusters = <<"clusterB", "clusterA">>

\* C6, as claimed. Cluster lists that are permutations of each other, the
\* other arguments the same: the descriptions built are the same, and the
\* call with one order, made after a call with the other order returned nil,
\* observes MATCH and makes no create, delete or setProxy call.
C6_OrderIndependence ==
    \A p \in Procs :
        (EnsureDone(inv[p]) /\ HasPrev /\ EnsureDone(Prev)
            /\ Prev.lbName = inv[p].lbName
            /\ Prev.ipAddress = inv[p].ipAddress
            /\ Prev.targetProxyLink = inv[p].targetProxyLink
            /\ Prev.forceUpdate = inv[p].forceUpdate
            /\ Prev.clusters # inv[p].clusters
            /\ IsPermutation(Prev.clusters, inv[p].clusters))
        => /\ Prev.desiredFR.Description = inv[p].desiredFR.Description
           /\ Prev.err = NoError => ObservedMatch(inv[p])

\* C6, the part the code keeps: the descriptions built for the two orders
\* are the same, and the second call observes MATCH unless the first call
\* returned nil after a setProxy on a rule that differed in a field other
\* than Target.
C6_SameDescription ==
    \A p \in Procs :
        (EnsureDone(inv[p]) /\ HasPrev /\ EnsureDone(Prev)
            /\ Prev.lbName = inv[p].lbName
            /\ Prev.ipAddress = inv[p].ipAddress
            /\ Prev.targetProxyLink = inv[p].targetProxyLink
            /\ Prev.forceUpdate = inv[p].forceUpdate
            /\ Prev.clusters # inv[p].clusters
            /\ IsPermutation(Prev.clusters, inv[p].clusters))
        => /\ Prev.desiredFR.Description = inv[p].desiredFR.Description
           /\ (Prev.err = NoError
                 /\ ~(Ops(Prev) = <<"get", "setProxy">>
                        /\ Differing(Prev.existingFR, Prev.desiredFR, UserFields)
                               # {"Target"}))
              => ObservedMatch(inv[p])

\* the first call created the rule, the second has the other order
C6_Witness ==
    \E p \in Procs :
        /\ EnsureDone(inv[p]) /\ HasPrev /\ EnsureDone(Prev)
        /\ Prev.clusters = <<"clusterB", "clusterA">>
        /\ inv[p].clusters = <<"clusterA", "clusterB">>
        /\ Prev.ipAddress = inv[p].ipAddress
        /\ Prev.targetProxyLink = inv[p].targetProxyLink
        /\ Ops(Prev) = <<"get", "create">>
        /\ Prev.err = NoError
        /\ ObservedMatch(inv[p])

\* a completed EnsureHttpForwardingRule with forceUpdate=false that found no
\* rule
FirstCreation(rec) ==
    /\ EnsureDone(rec)
    /\ ~rec.forceUpdate
    /\ rec.calls[1].err = ErrNotFound

\* the status decoded from the description of the rule it created
CreatedStatus(rec) == FromString(rec.calls[2].rule.Description)

\* C7, first step. EnsureHttpForwardingRule with forceUpdate=false on an
\* empty store issues one create, of a rule whose description decodes to the
\* clusters in sorted order.
C7_Created ==
    \A p \in Procs :
        (FirstCreation(inv[p]) /\ inv[p].before = EmptyStore)
        => /\ Ops(inv[p]) = <<"get", "create">>
           /\ CreatedStatus(inv[p]).err = NoError
           /\ IsSorted(CreatedStatus(inv[p]).status.Clusters)
           /\ IsPermutation(CreatedStatus(inv[p]).status.Clusters, inv[p].clusters)

\* C7, second step. The GetLoadBalancerStatus that follows returns that
\* decoded record.
C7_StatusAfter ==
    \A p \in Procs :
        (StatusDone(inv[p]) /\ HasPrev /\ FirstCreation(Prev))
        => /\ inv[p].err = NoError
           /\ inv[p].status = CreatedStatus(Prev).status
           /\ inv[p].status.LoadBalancerName = Prev.lbName
           /\ inv[p].status.IPAddress = Prev.ipAddress
           /\ IsSorted(inv[p].status.Clusters)
           /\ IsPermutation(inv[p].status.Clusters, Prev.clusters)

\* the same EnsureHttpForwardingRule call again, after the first creation and
\* the status query
ThirdStep(rec) ==
    /\ EnsureDone(rec)
    /\ HasPrev2
    /\ StatusDone(Prev)
    /\ FirstCreation(Prev2)
    /\ SameArgs(Prev2, rec)

\* C7, as claimed. First-time creation: the first and the second step as
\* above, and the same EnsureHttpForwardingRule call made after them performs
\* no provider call.
C7_NoProviderCalls ==
    /\ C7_Created
    /\ C7_StatusAfter
    /\ \A p \in Procs : ThirdStep(inv[p]) => inv[p].calls = <<>>

\* C7, amended. First-time creation: the first and the second step as above,
\* and the same EnsureHttpForwardingRule call made after them performs no
\* create, delete or setProxy call: it issues the one get, observes MATCH and
\* returns nil.
C7_FirstTimeCreation ==
    /\ C7_Created
    /\ C7_StatusAfter
    /\ \A p \in Procs :
           ThirdStep(inv[p]) =>
               MutatingCalls(inv[p]) = <<>> /\ ObservedMatch(inv[p])

\* the third step of the scenario, the clusters given as [clusterB, clusterA]
C7_Witness ==
    \E p \in Procs :
        /\ ThirdStep(inv[p])
        /\ inv[p].clusters = <<"clusterB", "clusterA">>
        /\ inv[p].ipAddress = "10.0.0.5"
        /\ inv[p].targetProxyLink = "proxy-A"
        /\ Prev.status.Clusters = <<"clusterA", "clusterB">>
        /\ Ops(Prev2) = <<"get", "create">>
        /\ ObservedMatch(inv[p])

----------------------------------------------------------------------------
\* The race of two EnsureHttpForwardingRule calls for the same rule name
\* (SpecRace): each provider call is atomic, the calls of the two callers
\* interleave in every way, and no provider call fails for a reason outside
\* the store.

BothReturned == \A p \in Procs : EnsureDone(inv[p])

Other(p) == CHOOSE q \in Procs : q # p

\* caller p made the call op and it succeeded
Succeeded(p, op) ==
    \E i \in 1..Len(inv[p].calls) :
        inv[p].calls[i].op = op /\ inv[p].calls[i].err = NoError

\* C10, as claimed. Whatever the interleaving, the race ends in a no-op or a
\* redundant delete and create: no create or setProxy call fails (on a
\* conflict or otherwise) and the rule is not absent at the end.
C10_NoOpOrRecreateOnly ==
    BothReturned =>
        /\ HttpForwardingRuleName \in DOMAIN store
        /\ \A p \in Procs : \A i \in 1..Len(inv[p].calls) :
               inv[p].calls[i].op \in {"create", "setProxy"} =>
                   inv[p].calls[i].err = NoError

\* C10, amended. Whatever the interleaving, when both calls have returned the
\* rule is present, and each call was a no-op (MATCH, or the refusal without
\* forceUpdate), a create, a setProxy, or a delete followed by a create. A
\* delete that finds the rule gone is tolerated. A create fails with the
\* provider's conflict error only when the other caller created the rule
\* first, a setProxy with not-found only when the other caller deleted the
\* rule first; no call fails otherwise.
C10_RaceOutcomes ==
    BothReturned =>
        /\ HttpForwardingRuleName \in DOMAIN store
        /\ \A p \in Procs :
               LET rec == inv[p]
                   n == Len(rec.calls)
               IN /\ Ops(rec) \in {<<"get">>, <<"get", "create">>, <<"get", "setProxy">>,
                                   <<"get", "delete", "create">>}
                  /\ rec.err \in {NoError, ErrRejected, ErrConflict, ErrNotFound}
                  /\ \A i \in 1..(n - 1) : rec.calls[i].err \in {NoError, ErrNotFound}
                  /\ rec.err \in {NoError, ErrRejected} => rec.calls[n].err = NoError
                  /\ rec.err = ErrConflict =>
                         /\ rec.calls[n].op = "create"
                         /\ rec.calls[n].err = ErrConflict
                         /\ Succeeded(Other(p), "create")
                  /\ rec.err = ErrNotFound =>
                         /\ rec.calls[n].op = "setProxy"
                         /\ rec.calls[n].err = ErrNotFound
                         /\ Succeeded(Other(p), "delete")

\* both callers delete and create: one delete finds the rule gone, one
\* create fails on the conflict
C10_Witness ==
    /\ BothReturned
    /\ \A p \in Procs : Ops(inv[p]) = <<"get", "delete", "create">>
    /\ \E p \in Procs :
           /\ inv[p].calls[2].err = ErrNotFound
           /\ inv[p].err = ErrConflict
           /\ inv[Other(p)].err = NoError

\* a setProxy fails because the other caller deleted the rule
C10_WitnessRetarget ==
    /\ BothReturned
    /\ \E p \in Procs :
           /\ Ops(inv[p]) = <<"get", "setProxy">>
           /\ inv[p].err = ErrNotFound

\* a rule that is neither caller's desired rule: one caller's rule with the
\* other caller's target
C10_WitnessMixed ==
    /\ BothReturned
    /\ \A p \in Procs : inv[p].err = NoError
    /\ \A p \in Procs :
           Differing(store[HttpForwardingRuleName], inv[p].desiredFR, UserFields) # {}

----------------------------------------------------------------------------
\* The decision of updateForwardingRule and what it leaves behind.

\* the UPDATE branch: the get answered with a rule that differs from the
\* desired one, and forceUpdate=true
InUpdate(rec) ==
    /\ EnsureFound(rec)
    /\ rec.forceUpdate
    /\ Differing(rec.existingFR, rec.desiredFR, UserFields) # {}

\* rec took the destructive path: after the get a delete by name, no setProxy,
\* and the create of the desired rule unless the delete failed
TookDestructivePath(rec) ==
    /\ Len(rec.calls) \in {2, 3}
    /\ rec.calls[2].op = "delete"
    /\ rec.calls[2].name = rec.desiredFR.Name
    /\ Len(rec.calls) = 3 <=> rec.calls[2].err \in {NoError, ErrNotFound}
    /\ Len(rec.calls) = 3 =>
           rec.calls[3].op = "create" /\ rec.calls[3].rule = rec.desiredFR

\* C11, as claimed. UPDATE decision: in the UPDATE branch, when the live rule
\* differs from the desired one in any field other than Target (the scheme
\* included), EnsureHttpForwardingRule deletes the rule by name and creates
\* the desired one; it sets the proxy only when Target is the sole differing
\* field.
C11_UpdateDecision ==
    \A p \in Procs :
        InUpdate(inv[p]) =>
            LET diff == Differing(inv[p].existingFR, inv[p].desiredFR, UserFields)
            IN /\ diff # {"Target"} => TookDestructivePath(inv[p])
               /\ diff = {"Target"} => Ops(inv[p]) = <<"get", "setProxy">>

\* C11, what the code does: the destructive path exactly when IPAddress,
\* PortRange, IPProtocol or Description differs, the setProxy otherwise.
C11_CodeDecision ==
    \A p \in Procs :
        InUpdate(inv[p]) =>
            LET diff == Differing(inv[p].existingFR, inv[p].desiredFR, UserFields)
                destructive ==
                    diff \cap {"IPAddress", "PortRange", "IPProtocol", "Description"} # {}
            IN /\ destructive => TookDestructivePath(inv[p])
               /\ ~destructive => Ops(inv[p]) = <<"get", "setProxy">>

\* a rule that differs in its scheme only has its proxy set
C11_WitnessScheme ==
    \E p \in Procs :
        /\ InUpdate(inv[p])
        /\ Differing(inv[p].existingFR, inv[p].desiredFR, UserFields)
               = {"LoadBalancingScheme"}
        /\ Ops(inv[p]) = <<"get", "setProxy">>
        /\ inv[p].err = NoError

\* C12, as claimed. Convergence: callers one after the other, a provider that
\* stores what it is given: after an EnsureHttpForwardingRule that returns
\* nil the live rule matches the desired rule under forwardingRuleMatches,
\* and the next EnsureHttpForwardingRule with the same arguments makes no
\* create, delete or setProxy call.
C12_Convergence ==
    \A p \in Procs :
        /\ (EnsureDone(inv[p]) /\ inv[p].err = NoError) =>
               /\ inv[p].desiredFR.Name \in DOMAIN inv[p].after
               /\ forwardingRuleMatches(inv[p].desiredFR,
                                        inv[p].after[inv[p].desiredFR.Name])
        /\ (EnsureDone(inv[p]) /\ HasPrev /\ EnsureDone(Prev)
                /\ Prev.err = NoError /\ SameArgs(Prev, inv[p])) =>
               MutatingCalls(inv[p]) = <<>>

\* C12, what the code keeps: the same, for every successful call but the one
\* that set the proxy of a rule differing in a field other than Target.
C12_ConvergenceButRetarget ==
    \A p \in Procs :
        LET settled(rec) ==
                ~(Ops(rec) = <<"get", "setProxy">>
                    /\ Differing(rec.existingFR, rec.desiredFR, UserFields)
                           # {"Target"})
        IN /\ (EnsureDone(inv[p]) /\ inv[p].err = NoError /\ settled(inv[p])) =>
                  /\ inv[p].desiredFR.Name \in DOMAIN inv[p].after
                  /\ forwardingRuleMatches(inv[p].desiredFR,
                                           inv[p].after[inv[p].desiredFR.Name])
           /\ (EnsureDone(inv[p]) /\ HasPrev /\ EnsureDone(Prev)
                   /\ Prev.err = NoError /\ settled(Prev) /\ SameArgs(Prev, inv[p])) =>
                  MutatingCalls(inv[p]) = <<>>

----------------------------------------------------------------------------
\* The delete of the update path, with a concurrent DeleteForwardingRules and
\* a provider whose calls may fail (SpecDisturb).

\* C13. Delete tolerance inside the update path: when the delete of the
\* destructive path answers not-found it counts as done and the create of the
\* desired rule follows; when it fails otherwise EnsureHttpForwardingRule
\* returns an error without a create, and leaves the live rule as it was
\* (the store it started on, or no rule where the concurrent delete removed
\* it).
C13_DeleteTolerance ==
    \A p \in Procs :
        (InUpdate(inv[p]) /\ Len(inv[p].calls) >= 2 /\ inv[p].calls[2].op = "delete")
        => LET rec == inv[p]
               derr == rec.calls[2].err
           IN /\ derr \in {NoError, ErrNotFound} =>
                    /\ Ops(rec) = <<"get", "delete", "create">>
                    /\ rec.calls[3].rule = rec.desiredFR
                    /\ rec.err = rec.calls[3].err
              /\ derr \notin {NoError, ErrNotFound} =>
                    /\ Ops(rec) = <<"get", "delete">>
                    /\ rec.err # NoError
                    /\ \/ rec.after = rec.before
                       \/ /\ Succeeded(Other(p), "delete")
                          /\ rec.after = EmptyStore

\* the delete finds the rule gone, the create is made and succeeds
C13_Witness ==
    \E p \in Procs :
        /\ InUpdate(inv[p])
        /\ Ops(inv[p]) = <<"get", "delete", "create">>
        /\ inv[p].calls[2].err = ErrNotFound
        /\ inv[p].calls[3].err = NoError
        /\ inv[p].err = NoError
        /\ forwardingRuleMatches(inv[p].desiredFR, store[HttpForwardingRuleName])

\* the delete fails otherwise: no create, the rule is still there
C13_WitnessAbort ==
    \E p \in Procs :
        /\ InUpdate(inv[p])
        /\ Ops(inv[p]) = <<"get", "delete">>
        /\ inv[p].calls[2].err = ErrOther
        /\ inv[p].err # NoError
        /\ inv[p].after = inv[p].before
        /\ inv[p].before # EmptyStore

----------------------------------------------------------------------------
\* Failures of the get and of the create.

\* C14. Fetch-error conflation: when the get of EnsureHttpForwardingRule
\* answers with any error, not-found or another, the call makes exactly one
\* create, of the desired rule, and returns what the create returned, for
\* either forceUpdate: no refusal without --force, no delete, no setProxy,
\* even if the provider holds a rule of that name.
C14_FetchErrorConflation ==
    \A p \in Procs :
        (EnsureDone(inv[p]) /\ inv[p].calls[1].err # NoError)
        => LET rec == inv[p]
           IN /\ Ops(rec) = <<"get", "create">>
              /\ rec.calls[2].rule = rec.desiredFR
              /\ rec.calls[2].name = HttpForwardingRuleName
              /\ rec.err = rec.calls[2].err
              /\ rec.err # ErrRejected

\* the get fails although the rule exists, forceUpdate=false: the create is
\* attempted and answers with the conflict
C14_Witness ==
    \E p \in Procs :
        /\ EnsureDone(inv[p])
        /\ inv[p].calls[1].err = ErrOther
        /\ HttpForwardingRuleName \in DOMAIN inv[p].before
        /\ ~inv[p].forceUpdate
        /\ Ops(inv[p]) = <<"get", "create">>
        /\ inv[p].err = ErrConflict

\* rec is a destructive update whose delete succeeded and whose create failed
CreateFailedAfterDelete(rec) ==
    /\ EnsureDone(rec)
    /\ Ops(rec) = <<"get", "delete", "create">>
    /\ rec.calls[2].err = NoError
    /\ rec.calls[3].err # NoError

\* C15. The destructive update is not atomic: when its delete succeeds and
\* its create fails, EnsureHttpForwardingRule returns the create's error and
\* the provider holds no rule of that name; the same call made next, with
\* either forceUpdate, finds no rule and issues a create of the desired rule.
C15_NotAtomic ==
    \A p \in Procs :
        /\ CreateFailedAfterDelete(inv[p]) =>
               /\ inv[p].err = inv[p].calls[3].err
               /\ inv[p].err # NoError
               /\ HttpForwardingRuleName \notin DOMAIN inv[p].after
        /\ (EnsureDone(inv[p]) /\ HasPrev /\ CreateFailedAfterDelete(Prev)) =>
               /\ HttpForwardingRuleName \notin DOMAIN inv[p].before
               /\ Ops(inv[p]) = <<"get", "create">>
               /\ inv[p].calls[1].err \in {ErrNotFound, ErrOther}
               /\ inv[p].calls[2].rule = inv[p].desiredFR
               /\ inv[p].desiredFR = Prev.desiredFR

\* the call made again without forceUpdate creates the rule
C15_Witness ==
    \E p \in Procs :
        /\ EnsureDone(inv[p]) /\ HasPrev /\ CreateFailedAfterDelete(Prev)
        /\ Prev.forceUpdate
        /\ ~inv[p].forceUpdate
        /\ inv[p].calls[1].err = ErrNotFound
        /\ Ops(inv[p]) = <<"get", "create">>
        /\ inv[p].err = NoError
        /\ HttpForwardingRuleName \in DOMAIN inv[p].after

----------------------------------------------------------------------------
\* What becomes of the provider's errors (SpecDisturb).

\* a completed EnsureHttpForwardingRule (its desired rule built) or
\* DeleteForwardingRules
MutatorDone(rec) == EnsureDone(rec) \/ DeleteDone(rec)

\* the provider errors that are not surfaced: any error of the get of
\* EnsureHttpForwardingRule, and not-found on the delete of its update path
Tolerated(rec, i) ==
    /\ rec.op = "Ensure"
    /\ \/ rec.calls[i].op = "get"
       \/ rec.calls[i].op = "delete" /\ rec.calls[i].err = ErrNotFound

\* the i-th provider call of rec is the delete of the update path and failed
\* otherwise than with not-found
UpdateDeleteFailed(rec, i) ==
    /\ rec.op = "Ensure"
    /\ rec.calls[i].op = "delete"
    /\ rec.calls[i].err \notin {NoError, ErrNotFound}

\* C16, as claimed. Error passthrough: every provider error that makes
\* EnsureHttpForwardingRule or DeleteForwardingRules fail (of a create, a
\* setProxy, the delete of the update path when not not-found, the delete of
\* DeleteForwardingRules) is returned as the same error value; the only
\* errors not surfaced are not-found on the delete of the update path and any
\* error of the get.
C16_ErrorPassthrough ==
    \A p \in Procs :
        MutatorDone(inv[p]) =>
            LET rec == inv[p]
                n == Len(rec.calls)
            IN /\ \A i \in 1..n :
                      rec.calls[i].err # NoError =>
                          IF Tolerated(rec, i)
                          THEN i < n
                          ELSE i = n /\ rec.err = rec.calls[i].err
               /\ rec.err \notin {NoError, ErrRejected} =>
                      rec.err = rec.calls[n].err

\* C16, amended. The same, except that an error other than not-found of the
\* delete of the update path is not returned as that value: the call returns
\* a new error whose text is "error in deleting existing forwarding rule",
\* the rule name and the text of the provider's error.
C16_ErrorPassthroughButWrap ==
    \A p \in Procs :
        MutatorDone(inv[p]) =>
            LET rec == inv[p]
                n == Len(rec.calls)
                wrapped(i) ==
                    <<"error in deleting existing forwarding rule",
                      rec.calls[i].name>> \o rec.calls[i].err
            IN /\ \A i \in 1..n :
                      rec.calls[i].err # NoError =>
                          IF Tolerated(rec, i) THEN i < n
                          ELSE IF UpdateDeleteFailed(rec, i)
                          THEN /\ i = n
                               /\ rec.err = wrapped(i)
                               /\ rec.err # rec.calls[i].err
                          ELSE i = n /\ rec.err = rec.calls[i].err
               /\ rec.err \notin {NoError, ErrRejected} =>
                      \/ rec.err = rec.calls[n].err
                      \/ UpdateDeleteFailed(rec, n) /\ rec.err = wrapped(n)

\* the delete of the update path fails with a server error, and the caller
\* gets the new error
C16_Witness ==
    \E p \in Procs :
        /\ EnsureDone(inv[p])
        /\ Ops(inv[p]) = <<"get", "delete">>
        /\ inv[p].calls[2].err = ErrOther
        /\ inv[p].err # ErrOther
        /\ inv[p].err # NoError

\* a setProxy that fails because the rule was deleted meanwhile: its error is
\* returned as it is
C16_WitnessRetarget ==
    \E p \in Procs :
        /\ EnsureDone(inv[p])
        /\ Ops(inv[p]) = <<"get", "setProxy">>
        /\ inv[p].calls[2].err = ErrNotFound
        /\ inv[p].err = ErrNotFound

----------------------------------------------------------------------------
\* The failure of the codec.

\* C17. Encoding failure: when the status codec fails to encode the record,
\* EnsureHttpForwardingRule returns an error without any provider call (no
\* get, create, delete or setProxy), and the store is as it was.
C17_EncodingFailure ==
    \A p \in Procs :
        (inv[p].op = "Ensure" /\ ~inv[p].encOk)
        => /\ inv[p].pc = "done"
           /\ inv[p].calls = <<>>
           /\ inv[p].err # NoError
           /\ inv[p].err = <<"unexpected error in generating the description for forwarding rule:">>
                               \o ErrEncoding
           /\ inv[p].after = inv[p].before
           /\ store = inv[p].before

\* the codec fails on a store that holds a rule differing from the one asked
\* for, forceUpdate=true
C17_Witness ==
    \E p \in Procs :
        /\ inv[p].op = "Ensure"
        /\ ~inv[p].encOk
        /\ inv[p].pc = "done"
        /\ inv[p].forceUpdate
        /\ inv[p].ipAddress = "10.0.0.6"
        /\ HttpForwardingRuleName \in DOMAIN store
        /\ store[HttpForwardingRuleName].IPAddress = "10.0.0.5"
        /\ inv[p].err # NoError

----------------------------------------------------------------------------
\* The comparator on its own (SpecMatch).

\* a completed call of forwardingRuleMatches
MatchesDone(rec) == rec.op = "Matches" /\ rec.pc = "done"

\* the fields the provider assigns
ProviderFields == {"CreationTimestamp", "Id", "Kind", "SelfLink", "ServerResponse"}

\* C18. Comparator: forwardingRuleMatches(desired, live) is true if and only
\* if live equals desired on every field other than CreationTimestamp, Id,
\* Kind, SelfLink and ServerResponse; whatever the values of these five on
\* live the result is the same; a difference in any other field, the
\* description included, gives false; the call changes neither the desired
\* rule nor any other field of live than these five.
C18_Comparator ==
    \A p \in Procs :
        MatchesDone(inv[p]) =>
            LET rec == inv[p]
                live == rec.before[HttpForwardingRuleName]
                desired == rec.desiredFR
            IN /\ rec.matches <=> Differing(live, desired, UserFields) = {}
               /\ \A f \in UserFields : live[f] # desired[f] => ~rec.matches
               /\ \A pa \in ProviderValues :
                      forwardingRuleMatches(desired, SetProvider(live, pa)) = rec.matches
               /\ Differing(live, rec.existingFR, UserFields) = {}
               /\ desired.Description =
                      ToString(StatusOf(rec.lbName, SortStrings(rec.clusters),
                                        rec.ipAddress))
               /\ Differing(desired, ZeroRule, ProviderFields) = {}

\* a live rule carrying provider metadata that matches
C18_Witness ==
    \E p \in Procs :
        /\ MatchesDone(inv[p])
        /\ inv[p].matches
        /\ Differing(inv[p].before[HttpForwardingRuleName], ZeroRule, ProviderFields)
               = ProviderFields
        /\ Differing(inv[p].existingFR, ZeroRule, ProviderFields) = {}

\* a live rule that differs in its description only does not match
C18_WitnessDescription ==
    \E p \in Procs :
        /\ MatchesDone(inv[p])
        /\ ~inv[p].matches
        /\ Differing(inv[p].before[HttpForwardingRuleName], inv[p].desiredFR, UserFields)
               = {"Description"}

----------------------------------------------------------------------------
\* The provider calls of one EnsureHttpForwardingRule call.

\* the number of calls of the provider operation op that rec made
CallsOf(rec, op) == Cardinality({i \in 1..Len(rec.calls) : rec.calls[i].op = op})

\* C19. No internal retry, bounded calls: an EnsureHttpForwardingRule call
\* makes at most one get, one delete, one create and one setProxy call, the
\* get first, never a setProxy together with a delete or a create, and never
\* again a call that failed; it ends: while it has not returned its next
\* provider call can be made, and it returns after three calls at most.
C19_BoundedCalls ==
    \A p \in Procs :
        inv[p].op = "Ensure" =>
            LET rec == inv[p]
                n == Len(rec.calls)
            IN /\ \A op \in {"get", "delete", "create", "setProxy"} :
                      CallsOf(rec, op) <= 1
               /\ n >= 1 => rec.calls[1].op = "get"
               /\ rec.pc # "done" => n >= 1
               /\ CallsOf(rec, "setProxy") = 1 =>
                      CallsOf(rec, "delete") = 0 /\ CallsOf(rec, "create") = 0
               /\ \A i \in 1..n : \A j \in (i + 1)..n :
                      rec.calls[i].err # NoError =>
                          rec.calls[j].op # rec.calls[i].op
               /\ n <= 3
               /\ rec.pc = "delete" => ENABLED updateForwardingRuleDelete(p, "call")
               /\ rec.pc = "setProxy" => ENABLED updateForwardingRuleSetProxy(p, "call")
               /\ rec.pc = "create" => ENABLED createForwardingRule(p, "call")
               /\ rec.pc \in {"delete", "setProxy", "create", "done"}

\* a create that fails after the delete is not made again
C19_Witness ==
    \E p \in Procs :
        /\ EnsureDone(inv[p])
        /\ Ops(inv[p]) = <<"get", "delete", "create">>
        /\ inv[p].calls[3].err = ErrOther
        /\ inv[p].err = ErrOther

====
